---- MODULE Spec2Model ----
(***************************************************************************)
(* Model of the mAgent-CRM automation core:                                *)
(*   - the workflow engine   (analytics/task_automation.py)                *)
(*   - the lead scoring engine (analytics/lead_scoring.py)                 *)
(* over the ORM rows declared in analytics/models.py.                      *)
(*                                                                         *)
(* The two engines share no rows, so each has its own specification:       *)
(* SpecWorkflow and SpecScoring.                                           *)
(***************************************************************************)
EXTENDS Integers, Sequences, FiniteSets, TLC

VARIABLES
    workflow_templates, \* WorkflowTemplate rows: trigger and limit settings
    workflow_actions,   \* WorkflowAction rows
    executions,         \* WorkflowExecution rows, pk = index
    action_executions,  \* ActionExecution rows, pk = index (creation order)
    analytics_events,   \* AnalyticsEvent rows of type workflow_triggered
    pc,                 \* position of the single synchronous engine call
    cur_exec,           \* pk of the execution the engine call works on (0: none)
    cur_action,         \* action_order of the action handed to _execute_action
    rules,              \* LeadScoringRule rows: rule name -> is_active
    customer_data,      \* per customer: city and the state of its EmailDelivery
    config,             \* the LeadScoringConfig singleton
    customer_scores,    \* CustomerScore rows (NoScore: no row yet); the stored
                        \* score_breakdown, which the engine never reads, is
                        \* kept as the local calc.score_breakdown only
    score_history,      \* ScoreHistory rows, creation order
    calc,               \* locals of the running calculate_customer_score call
    customers,          \* Customer rows, pk = index
    response,           \* the response to the last request to customers.views
    clock,              \* timezone.now(), in hours
    sequence_steps,     \* EmailSequenceStep rows of the email sequence
    email_deliveries,   \* EmailDelivery rows of the sequence's steps
    sequence_events     \* AnalyticsEvent rows of type email_sequence_triggered

wfvars == <<workflow_templates, workflow_actions, executions,
            action_executions, analytics_events,
            pc, cur_exec, cur_action>>

scvars == <<rules, customer_data, config, customer_scores, score_history,
            calc>>

cuvars == <<customers, response>>

emvars == <<clock, sequence_steps, email_deliveries, sequence_events>>

vars == <<wfvars, scvars, cuvars, emvars>>

----------------------------------------------------------------------------
(* Bounds *)

MaxActions == 3          \* WorkflowAction rows per workflow
MaxExecutions == 2       \* WorkflowExecution rows
MaxRules == 3            \* LeadScoringRule rows
MaxCalculations == 2     \* CustomerScore.calculation_count
MaxHistory == 2          \* ScoreHistory rows
MaxCustomers == 3        \* Customer rows
MaxRows == 2             \* data rows of an uploaded CSV file
MaxClock == 3            \* hours the clock runs
MaxTriggers == 2         \* calls of trigger_sequence
MaxDeliveries == 4       \* EmailDelivery rows

----------------------------------------------------------------------------
(* Fixed rows *)

Workflows == {"w1"}
Customers == {"c1"}

\* WorkflowAction.ACTION_TYPES (the members the model exercises)
ACTION_TYPES == {"create_task", "send_email", "trigger_webhook", "wait"}

\* the action types _execute_action dispatches to an executor
HandledTypes == {"create_task", "send_email", "add_note", "update_customer",
                 "send_notification", "create_reminder", "assign_tag",
                 "remove_tag", "wait"}

\* executors whose outcome depends on the environment (mail transport,
\* template lookup): they may raise
MayRaiseTypes == {"send_email"}

\* delay_minutes values a WorkflowActionForm submits
DelayValues == {0, 5}

\* trigger_conditions: a JSON object, here a function from its keys; {} is
\* the function without keys
NoConditions == [k \in {} |-> {}]

\* the WorkflowTemplate row as workflow_create saves it with the defaults of
\* the model; max_executions 0 stands for null
DefaultTemplate ==
    [trigger_type |-> "manual", is_active |-> TRUE,
     trigger_conditions |-> NoConditions, max_executions |-> 0]

\* WorkflowTemplate rows WorkflowTemplateForm can save; the first is the
\* onboarding workflow of create_task_automation_data.py
TemplateChoices ==
    {[trigger_type |-> "customer_created", is_active |-> TRUE,
      trigger_conditions |-> NoConditions, max_executions |-> 1],
     [trigger_type |-> "customer_created", is_active |-> TRUE,
      trigger_conditions |-> [customer_city |-> {"Auckland"}],
      max_executions |-> 1],
     [trigger_type |-> "customer_created", is_active |-> TRUE,
      trigger_conditions |-> [customer_city |-> {"Hamilton"}],
      max_executions |-> 0],
     [trigger_type |-> "customer_created", is_active |-> FALSE,
      trigger_conditions |-> NoConditions, max_executions |-> 0]}

\* trigger types the callers of trigger_workflows pass
TriggerTypes == {"customer_created", "note_added"}

----------------------------------------------------------------------------
(* Helpers over the rows *)

ActionsOf(w) == {a \in workflow_actions : a.workflow = w}

Max(S) == CHOOSE x \in S : \A y \in S : y <= x

\* WorkflowAction.objects.filter(workflow=execution.workflow,
\*     action_order__gte=execution.current_action)
NextActionsBroken(execution) ==
    {a \in ActionsOf(execution.workflow) : TRUE}

NextActions(execution) ==
    {a \in ActionsOf(execution.workflow) :
        a.action_order >= execution.current_action}

\* .order_by('action_order').first()
FirstActionBroken(actions) ==
    CHOOSE a \in actions : \A b \in actions : a.action_order >= b.action_order

FirstAction(actions) ==
    CHOOSE a \in actions : \A b \in actions : a.action_order <= b.action_order

ActionRow(w, order) ==
    CHOOSE a \in ActionsOf(w) : a.action_order = order

\* execution.execution_log.append(entry)
LogAppendBroken(log, entry) == <<entry>>

LogAppend(log, entry) == Append(log, entry)

\* execution.current_action += 1
AdvanceCursorBroken(cursor) == cursor + 2

AdvanceCursor(cursor) == cursor + 1

\* the except branch of _execute_action: status and error of the execution
FailExecutionBroken(execution, entry) ==
    [execution EXCEPT !.execution_log = LogAppend(@, entry)]

FailExecution(execution, entry) ==
    [execution EXCEPT !.execution_log = LogAppend(@, entry),
                      !.status = "failed",
                      !.error_message = entry.action]

\* _schedule_next_action: no task queue, it advances the cursor and calls
\* _execute_next_action at once; the result is the saved row and the
\* position the engine call continues at
ScheduleNextActionBroken(execution) ==
    [execution |-> execution, pc |-> "return"]

ScheduleNextAction(execution) ==
    [execution |-> [execution EXCEPT !.current_action = AdvanceCursor(@)],
     pc |-> "execute_next_action"]

IsPrefix(s, t) ==
    /\ Len(s) <= Len(t)
    /\ \A i \in 1..Len(s) : s[i] = t[i]

----------------------------------------------------------------------------
(* Workflow engine *)

InitWorkflow ==
    /\ workflow_templates = [w \in Workflows |-> DefaultTemplate]
    /\ workflow_actions = {}
    /\ executions = <<>>
    /\ action_executions = <<>>
    /\ analytics_events = <<>>
    /\ pc = "idle"
    /\ cur_exec = 0
    /\ cur_action = 0

\* views: workflow_action_create
WorkflowActionCreate(w, type, delay) ==
    /\ pc = "idle"
    /\ Cardinality(ActionsOf(w)) < MaxActions
    /\ LET last == IF ActionsOf(w) = {} THEN 0
                   ELSE Max({a.action_order : a \in ActionsOf(w)})
           order == IF ActionsOf(w) = {} THEN 1 ELSE last + 1
       IN workflow_actions' = workflow_actions \cup
            {[workflow |-> w, action_order |-> order,
              action_type |-> type, delay_minutes |-> delay]}
    /\ UNCHANGED <<workflow_templates, executions, action_executions,
                   analytics_events, pc, cur_exec, cur_action, scvars, cuvars, emvars>>

\* WorkflowEngine.start_workflow_execution, up to the call of
\* _execute_next_action
StartWorkflowExecution(w, c) ==
    /\ pc = "idle"
    /\ Len(executions) < MaxExecutions
    /\ executions' = Append(executions,
            [workflow |-> w, customer |-> c, status |-> "pending",
             current_action |-> 1,
             execution_log |-> <<[action |-> "workflow_started", ok |-> TRUE]>>,
             error_message |-> ""])
    /\ cur_exec' = Len(executions) + 1
    /\ pc' = "execute_next_action"
    /\ UNCHANGED <<workflow_templates, workflow_actions, action_executions,
                   analytics_events, cur_action, scvars, cuvars, emvars>>

\* WorkflowEngine._execute_next_action
ExecuteNextAction ==
    /\ pc = "execute_next_action"
    /\ LET execution == executions[cur_exec]
           actions == NextActions(execution)
       IN IF execution.status \notin {"pending", "running"}
          THEN /\ pc' = "return"
               /\ UNCHANGED <<executions, cur_action>>
          ELSE IF actions = {}
          THEN /\ executions' = [executions EXCEPT ![cur_exec] =
                    [execution EXCEPT
                        !.status = "completed",
                        !.execution_log = LogAppend(@,
                            [action |-> "workflow_completed", ok |-> TRUE])]]
               /\ pc' = "return"
               /\ UNCHANGED cur_action
          ELSE LET action == FirstAction(actions)
               IN /\ executions' = [executions EXCEPT ![cur_exec] =
                        [execution EXCEPT
                            !.status = "running",
                            !.current_action = action.action_order]]
                  /\ cur_action' = action.action_order
                  /\ pc' = "execute_action"
    /\ UNCHANGED <<workflow_templates, workflow_actions, action_executions,
                   analytics_events, cur_exec, scvars, cuvars, emvars>>

\* WorkflowEngine._execute_action: ActionExecution.objects.create(...)
BeginAction ==
    /\ pc = "execute_action"
    /\ action_executions' = Append(action_executions,
            [workflow_execution |-> cur_exec, action |-> cur_action,
             status |-> "running"])
    /\ pc' = "run_action"
    /\ UNCHANGED <<workflow_templates, workflow_actions, executions,
                   analytics_events, cur_exec, cur_action, scvars, cuvars, emvars>>

\* WorkflowEngine._execute_action: the try block, executor returned
ActionSucceeds ==
    /\ pc = "run_action"
    /\ LET execution == executions[cur_exec]
           action == ActionRow(execution.workflow, cur_action)
           logged == [execution EXCEPT !.execution_log = LogAppend(@,
                        [action |-> action.action_type, ok |-> TRUE])]
       IN /\ action.action_type \in HandledTypes
          /\ action_executions' = [action_executions EXCEPT
                ![Len(action_executions)].status = "completed"]
          /\ IF action.delay_minutes # 0
             THEN /\ executions' = [executions EXCEPT ![cur_exec] =
                        ScheduleNextAction(logged).execution]
                  /\ pc' = ScheduleNextAction(logged).pc
             ELSE /\ executions' = [executions EXCEPT ![cur_exec] =
                        [logged EXCEPT !.current_action = AdvanceCursor(@)]]
                  /\ pc' = "execute_next_action"
    /\ UNCHANGED <<workflow_templates, workflow_actions, analytics_events,
                   cur_exec, cur_action, scvars, cuvars, emvars>>

\* WorkflowEngine._execute_action: the except branch
ActionFails ==
    /\ pc = "run_action"
    /\ LET execution == executions[cur_exec]
           action == ActionRow(execution.workflow, cur_action)
       IN /\ \/ action.action_type \notin HandledTypes
             \/ action.action_type \in MayRaiseTypes
          /\ action_executions' = [action_executions EXCEPT
                ![Len(action_executions)].status = "failed"]
          /\ executions' = [executions EXCEPT ![cur_exec] =
                FailExecution(execution,
                    [action |-> action.action_type, ok |-> FALSE])]
          /\ pc' = "return"
    /\ UNCHANGED <<workflow_templates, workflow_actions, analytics_events,
                   cur_exec, cur_action, scvars, cuvars, emvars>>

\* WorkflowEngine.start_workflow_execution after _execute_next_action
\* returned: the analytics event, then return execution
ReturnExecution ==
    /\ pc = "return"
    /\ analytics_events' = Append(analytics_events,
            [event_type |-> "workflow_triggered", execution_id |-> cur_exec])
    /\ pc' = "idle"
    /\ cur_exec' = 0
    /\ cur_action' = 0
    /\ UNCHANGED <<workflow_templates, workflow_actions, executions,
                   action_executions, scvars, cuvars, emvars>>

NextWorkflow ==
    \/ \E w \in Workflows, t \in ACTION_TYPES, d \in DelayValues :
            WorkflowActionCreate(w, t, d)
    \/ \E w \in Workflows, c \in Customers : StartWorkflowExecution(w, c)
    \/ ExecuteNextAction
    \/ BeginAction
    \/ ActionSucceeds
    \/ ActionFails
    \/ ReturnExecution

----------------------------------------------------------------------------
(* Workflow triggers *)

\* task_views: workflow_edit saves WorkflowTemplateForm
WorkflowEdit(w, template) ==
    /\ pc = "idle"
    /\ workflow_templates[w] # template
    /\ workflow_templates' = [workflow_templates EXCEPT ![w] = template]
    /\ UNCHANGED <<workflow_actions, executions, action_executions,
                   analytics_events, pc, cur_exec, cur_action, scvars, cuvars, emvars>>

\* WorkflowExecution.objects.filter(workflow=workflow, customer=customer,
\*     status__in=['completed', 'running']).count()
ExecutionCount(w, c) ==
    Cardinality({e \in DOMAIN executions :
                    /\ executions[e].workflow = w
                    /\ executions[e].customer = c
                    /\ executions[e].status \in {"completed", "running"}})

\* WorkflowEngine._should_trigger_workflow, for conditions on the city
ShouldTriggerWorkflow(w, c) ==
    LET workflow == workflow_templates[w]
        conditions == workflow.trigger_conditions
    IN IF DOMAIN conditions = {} THEN TRUE
       ELSE IF "customer_city" \in DOMAIN conditions
               /\ customer_data[c].city \notin conditions.customer_city
       THEN FALSE
       ELSE IF workflow.max_executions # 0
               /\ ExecutionCount(w, c) >= workflow.max_executions
       THEN FALSE
       ELSE TRUE

\* WorkflowEngine.trigger_workflows: the active workflows of the trigger
\* type that should trigger are started, up to the call of
\* _execute_next_action
TriggerWorkflows(trigger_type, c) ==
    /\ pc = "idle"
    /\ Len(executions) < MaxExecutions
    /\ LET workflows == {w \in Workflows :
                            /\ workflow_templates[w].trigger_type = trigger_type
                            /\ workflow_templates[w].is_active}
           started == {w \in workflows : ShouldTriggerWorkflow(w, c)}
       IN IF started = {}
          THEN UNCHANGED <<executions, cur_exec, pc>>
          ELSE \E w \in started :
                /\ executions' = Append(executions,
                        [workflow |-> w, customer |-> c, status |-> "pending",
                         current_action |-> 1,
                         execution_log |->
                            <<[action |-> "workflow_started", ok |-> TRUE]>>,
                         error_message |-> ""])
                /\ cur_exec' = Len(executions) + 1
                /\ pc' = "execute_next_action"
    /\ UNCHANGED <<workflow_templates, workflow_actions, action_executions,
                   analytics_events, cur_action, scvars, cuvars, emvars>>

NextTrigger ==
    \/ NextWorkflow
    \/ \E w \in Workflows, template \in TemplateChoices :
            WorkflowEdit(w, template)
    \/ \E t \in TriggerTypes, c \in Customers : TriggerWorkflows(t, c)

----------------------------------------------------------------------------
(* Python arithmetic used by the scoring engine *)

Abs(x) == IF x < 0 THEN -x ELSE x

RECURSIVE Pow2(_)
Pow2(n) == IF n = 0 THEN 1 ELSE 2 * Pow2(n - 1)

RECURSIVE Pow2Mod100(_)
Pow2Mod100(n) == IF n = 0 THEN 1 ELSE (2 * Pow2Mod100(n - 1)) % 100

\* floor(log2(n / m)) for positive integers n, m
RECURSIVE Log2Ratio(_, _)
Log2Ratio(n, m) ==
    IF n >= 2 * m THEN 1 + Log2Ratio(n, 2 * m)
    ELSE IF n < m THEN Log2Ratio(2 * n, m) - 1
    ELSE 0

\* t * (d / 100) in IEEE-754 doubles, for t, d > 0 with t*d a multiple of
\* 100: the quotient d/100 is rounded to 53 bits (it falls short of d/100 by
\* r / (100 * 2^(52-j)) when the remainder r of d * 2^(52-j) by 100 is under
\* 50), the product is rounded to 53 bits again, and it ends below the
\* integer t*d/100 when the shortfall exceeds half the spacing of the
\* doubles just below that integer.
FloatProductShort(t, d) ==
    LET j == Log2Ratio(d, 100)
        r == ((d % 100) * Pow2Mod100(52 - j)) % 100
        q == (t * d) \div 100
        e == Log2Ratio(2 * q - 1, 2)
        x == e - j - 1
    IN /\ (t * d) % 100 = 0
       /\ r > 0 /\ r < 50
       /\ IF x >= 0 THEN t * r > 100 * Pow2(x)
                    ELSE t * r * Pow2(-x) > 100

\* int(t * (d / 100)): the double product truncated toward zero.  When t*d
\* is no multiple of 100 the double lies strictly between the two
\* neighbouring integers, so truncation gives the exact quotient.
PyScale(t, d) ==
    LET a == Abs(t)
        b == Abs(d)
        q == (a * b) \div 100
        m == IF a > 0 /\ b > 0 /\ FloatProductShort(a, b) THEN q - 1 ELSE q
    IN IF (t < 0) = (d < 0) THEN m ELSE -m

----------------------------------------------------------------------------
(* Lead scoring rows *)

NoScore == [exists |-> FALSE]

Cities == {"Auckland", "Hamilton"}

\* state of the customer's EmailDelivery row inside the rule's window
EmailStates == {"none", "sent", "opened", "clicked"}

\* LeadScoringRule rows: the form fields of LeadScoringRuleForm, and
\* max_score_contribution (null: {}), which the form does not offer and a
\* row gets through the ORM only
RuleCatalogue ==
    [alpha   |-> [priority |-> 2, rule_type |-> "geographic_location",
                  cities |-> {"Auckland"}, score_value |-> 100,
                  is_multiplier |-> FALSE, max_score_contribution |-> {}],
     bravo   |-> [priority |-> 0, rule_type |-> "email_engagement",
                  min_opens |-> 1, min_clicks |-> 1,
                  engagement_rate_threshold |-> 50, score_value |-> 25,
                  is_multiplier |-> FALSE, max_score_contribution |-> {25}],
     charlie |-> [priority |-> 2, rule_type |-> "customer_attribute",
                  field_name |-> "email", condition |-> "not_empty",
                  score_value |-> -30, is_multiplier |-> FALSE,
                  max_score_contribution |-> {}],
     delta   |-> [priority |-> 1, rule_type |-> "geographic_location",
                  cities |-> {"Auckland"}, score_value |-> 29,
                  is_multiplier |-> TRUE, max_score_contribution |-> {}]]

RuleNames == DOMAIN RuleCatalogue

\* rule names in ascending order, as the database collates them
NameRank == [alpha |-> 1, bravo |-> 2, charlie |-> 3, delta |-> 4]

\* LeadScoringConfig rows LeadScoringConfigForm can save
ConfigChoices ==
    {[min_score |-> 0, max_score |-> 100, enable_score_decay |-> FALSE,
      decay_rate_percent |-> 5],
     [min_score |-> -20, max_score |-> 60, enable_score_decay |-> TRUE,
      decay_rate_percent |-> 50],
     [min_score |-> 60, max_score |-> 40, enable_score_decay |-> TRUE,
      decay_rate_percent |-> 5]}

DefaultConfig ==
    [min_score |-> 0, max_score |-> 100, enable_score_decay |-> FALSE,
     decay_rate_percent |-> 5]

CalcIdle ==
    [pc |-> "idle", customer |-> "", rules |-> <<>>,
     done |-> <<>>, new_score |-> 0, score_breakdown |-> <<>>,
     previous_score |-> 0, previous_tier |-> "cold"]

----------------------------------------------------------------------------
(* Lead scoring engine *)

\* LeadScoringEngine._evaluate_geographic_location_rule
EvaluateGeographicLocationRule(data, rule) ==
    IF rule.cities # {} /\ data.city \in rule.cities
    THEN rule.score_value ELSE 0

\* LeadScoringEngine._evaluate_customer_attribute_rule; the customer's email
\* is a required field and never empty
EvaluateCustomerAttributeRule(data, rule) ==
    IF rule.condition = "not_empty" /\ rule.field_name = "email"
    THEN rule.score_value ELSE 0

\* LeadScoringEngine._evaluate_email_engagement_rule over the one delivery
EvaluateEmailEngagementRule(data, rule) ==
    LET total_emails == IF data.email = "none" THEN 0 ELSE 1
        opened_emails == IF data.email \in {"opened", "clicked"} THEN 1 ELSE 0
        clicked_emails == IF data.email = "clicked" THEN 1 ELSE 0
        engagement_rate == IF total_emails > 0
                           THEN (opened_emails * 100) \div total_emails ELSE 0
        half == rule.score_value \div 2
        s1 == IF opened_emails >= rule.min_opens THEN half ELSE 0
        s2 == IF clicked_emails >= rule.min_clicks THEN half ELSE 0
        s3 == IF rule.engagement_rate_threshold # 0
                 /\ engagement_rate >= rule.engagement_rate_threshold
              THEN rule.score_value ELSE 0
    IN IF total_emails = 0 THEN 0 ELSE s1 + s2 + s3

\* LeadScoringEngine._evaluate_rule
EvaluateRule(data, rule) ==
    IF rule.rule_type = "customer_attribute"
    THEN EvaluateCustomerAttributeRule(data, rule)
    ELSE IF rule.rule_type = "email_engagement"
    THEN EvaluateEmailEngagementRule(data, rule)
    ELSE IF rule.rule_type = "geographic_location"
    THEN EvaluateGeographicLocationRule(data, rule)
    ELSE 0

\* the loop body of calculate_customer_score: the running total after a rule
\* that evaluated to rule_score
ApplyRuleScore(new_score, rule_score, is_multiplier) ==
    IF rule_score # 0
    THEN IF is_multiplier THEN PyScale(new_score, rule_score)
                          ELSE new_score + rule_score
    ELSE new_score

\* LeadScoringRule.objects.filter(is_active=True)
ActiveRulesBroken == DOMAIN rules

ActiveRules == {n \in DOMAIN rules : rules[n]}

\* .order_by('-priority', 'name'): n comes no later than m
RuleBeforeBroken(n, m) ==
    \/ RuleCatalogue[n].priority < RuleCatalogue[m].priority
    \/ /\ RuleCatalogue[n].priority = RuleCatalogue[m].priority
       /\ NameRank[n] <= NameRank[m]

RuleBefore(n, m) ==
    \/ RuleCatalogue[n].priority > RuleCatalogue[m].priority
    \/ /\ RuleCatalogue[n].priority = RuleCatalogue[m].priority
       /\ NameRank[n] <= NameRank[m]

\* the evaluated queryset: the sequences holding each selected rule once, in
\* the order of the queryset
RECURSIVE SeqsOf(_)
SeqsOf(S) ==
    IF S = {} THEN {<<>>}
    ELSE UNION {{<<n>> \o q : q \in SeqsOf(S \ {n})} : n \in S}

OrderedRules(S) ==
    {q \in SeqsOf(S) : \A i, j \in 1..Len(q) : i < j => RuleBefore(q[i], q[j])}

\* max(config.min_score, min(config.max_score, new_score))
ClampScoreBroken(cfg, new_score) == new_score

ClampScore(cfg, new_score) ==
    LET capped == IF cfg.max_score < new_score THEN cfg.max_score
                  ELSE new_score
    IN IF cfg.min_score > capped THEN cfg.min_score ELSE capped

\* CustomerScore.update_score_tier
ScoreTierBroken(current_score) ==
    IF current_score < 25 THEN "cold"
    ELSE IF current_score < 50 THEN "warm"
    ELSE IF current_score < 75 THEN "hot"
    ELSE "qualified"

ScoreTier(current_score) ==
    IF current_score <= 25 THEN "cold"
    ELSE IF current_score <= 50 THEN "warm"
    ELSE IF current_score <= 75 THEN "hot"
    ELSE "qualified"

\* the condition under which calculate_customer_score writes a ScoreHistory
\* row
HistoryDueBroken(new_score, previous_score, new_tier, previous_tier) ==
    new_tier # previous_tier

HistoryDue(new_score, previous_score, new_tier, previous_tier) ==
    new_score # previous_score \/ new_tier # previous_tier

\* int(old_score * decay_factor), decay_factor = 1 - decay_rate_percent/100;
\* for the rates of ConfigChoices the double 1 - rate/100 is the double
\* nearest to (100 - rate)/100
DecayedScore(old_score, decay_rate_percent) ==
    PyScale(old_score, 100 - decay_rate_percent)

InitScoring ==
    /\ rules = <<>>
    /\ customer_data = [c \in Customers |->
                            [city |-> "Auckland", email |-> "none"]]
    /\ config = DefaultConfig
    /\ customer_scores = [c \in Customers |-> NoScore]
    /\ score_history = <<>>
    /\ calc = CalcIdle

\* lead_scoring_views: a rule is created with LeadScoringRuleForm
RuleCreate(n) ==
    /\ calc.pc = "idle"
    /\ n \notin DOMAIN rules
    /\ Cardinality(DOMAIN rules) < MaxRules
    /\ rules' = [m \in DOMAIN rules \cup {n} |->
                    IF m = n THEN TRUE ELSE rules[m]]
    /\ UNCHANGED <<customer_data, config, customer_scores, score_history,
                   calc, wfvars, cuvars, emvars>>

\* lead_scoring_views: a rule's is_active flag is switched
RuleToggle(n) ==
    /\ calc.pc = "idle"
    /\ n \in DOMAIN rules
    /\ rules' = [rules EXCEPT ![n] = ~@]
    /\ UNCHANGED <<customer_data, config, customer_scores, score_history,
                   calc, wfvars, cuvars, emvars>>

\* customers.views: the customer's city is edited
CustomerUpdate(c, city) ==
    /\ calc.pc = "idle"
    /\ customer_data[c].city # city
    /\ customer_data' = [customer_data EXCEPT ![c].city = city]
    /\ UNCHANGED <<rules, config, customer_scores, score_history,
                   calc, wfvars, cuvars, emvars>>

\* email tracking: the customer's EmailDelivery is created or its status
\* moves on
EmailProgress(c) ==
    /\ calc.pc = "idle"
    /\ customer_data[c].email # "clicked"
    /\ customer_data' = [customer_data EXCEPT ![c].email =
            IF @ = "none" THEN "sent"
            ELSE IF @ = "sent" THEN "opened" ELSE "clicked"]
    /\ UNCHANGED <<rules, config, customer_scores, score_history,
                   calc, wfvars, cuvars, emvars>>

\* lead_scoring_views: LeadScoringConfigForm is saved
ConfigUpdate(cfg) ==
    /\ calc.pc = "idle"
    /\ config # cfg
    /\ config' = cfg
    /\ UNCHANGED <<rules, customer_data, customer_scores, score_history,
                   calc, wfvars, cuvars, emvars>>

\* calculate_customer_score: get_or_create, the five-minute check, the
\* previous score and the rule queryset.  `recently` is the clock's answer
\* to timezone.now() - last_calculated < timedelta(minutes=5).
CalculateBegin(c, force_recalculate, recently) ==
    /\ calc.pc = "idle"
    /\ Len(score_history) < MaxHistory
    /\ customer_scores[c].exists =>
            customer_scores[c].calculation_count < MaxCalculations
    /\ LET created == ~customer_scores[c].exists
           row == IF created
                  THEN [exists |-> TRUE, current_score |-> 0,
                        score_tier |-> "cold", previous_score |-> 0,
                        score_change |-> 0, calculation_count |-> 0]
                  ELSE customer_scores[c]
       IN IF ~force_recalculate /\ ~created /\ recently
          THEN UNCHANGED <<customer_scores, calc>>
          ELSE /\ customer_scores' = [customer_scores EXCEPT ![c] = row]
               /\ \E q \in OrderedRules(ActiveRules) :
                    calc' = [pc |-> "rules", customer |-> c,
                             rules |-> q, done |-> <<>>,
                             new_score |-> 0, score_breakdown |-> <<>>,
                             previous_score |-> row.current_score,
                             previous_tier |-> row.score_tier]
    /\ UNCHANGED <<rules, customer_data, config, score_history, wfvars, cuvars, emvars>>

\* calculate_customer_score: one pass of `for rule in rules`
CalculateRule ==
    /\ calc.pc = "rules"
    /\ calc.rules # <<>>
    /\ LET n == Head(calc.rules)
           rule == RuleCatalogue[n]
           rule_score == EvaluateRule(customer_data[calc.customer], rule)
       IN calc' = [calc EXCEPT
            !.rules = Tail(@),
            !.done = Append(@, n),
            !.new_score = ApplyRuleScore(@, rule_score, rule.is_multiplier),
            !.score_breakdown =
                IF rule_score # 0
                THEN Append(@, [name |-> n,
                                score_contribution |-> rule_score,
                                is_multiplier |-> rule.is_multiplier])
                ELSE @]
    /\ UNCHANGED <<rules, customer_data, config, customer_scores,
                   score_history, wfvars, cuvars, emvars>>

\* calculate_customer_score after the loop: limits, the CustomerScore row,
\* the tier and the ScoreHistory row
CalculateFinish ==
    /\ calc.pc = "rules"
    /\ calc.rules = <<>>
    /\ LET c == calc.customer
           new_score == ClampScore(config, calc.new_score)
           new_tier == ScoreTier(new_score)
       IN /\ customer_scores' = [customer_scores EXCEPT ![c] =
                [@ EXCEPT !.previous_score = calc.previous_score,
                          !.current_score = new_score,
                          !.score_change = new_score - calc.previous_score,
                          !.calculation_count = @ + 1,
                          !.score_tier = new_tier]]
          /\ score_history' =
                IF HistoryDue(new_score, calc.previous_score,
                              new_tier, calc.previous_tier)
                THEN Append(score_history,
                        [customer |-> c,
                         old_score |-> calc.previous_score,
                         new_score |-> new_score,
                         score_change |-> new_score - calc.previous_score,
                         old_tier |-> calc.previous_tier,
                         new_tier |-> new_tier,
                         change_reason |-> "recalculation"])
                ELSE score_history
    /\ calc' = CalcIdle
    /\ UNCHANGED <<rules, customer_data, config, wfvars, cuvars, emvars>>

\* the CustomerScore row and its ScoreHistory row apply_score_decay writes
\* for one customer
DecayRow(row) ==
    LET new_score == DecayedScore(row.current_score, config.decay_rate_percent)
    IN IF row.exists /\ new_score # row.current_score
       THEN [row EXCEPT !.previous_score = row.current_score,
                        !.current_score = new_score,
                        !.score_change = new_score - row.current_score,
                        !.score_tier = ScoreTier(new_score)]
       ELSE row

RECURSIVE DecayHistory(_, _)
DecayHistory(history, todo) ==
    IF todo = {} THEN history
    ELSE LET c == CHOOSE x \in todo : TRUE
             old == customer_scores[c]
             new == DecayRow(old)
         IN DecayHistory(
              IF new # old
              THEN Append(history,
                     [customer |-> c,
                      old_score |-> old.current_score,
                      new_score |-> new.current_score,
                      score_change |-> new.current_score - old.current_score,
                      old_tier |-> new.score_tier,
                      new_tier |-> new.score_tier,
                      change_reason |-> "decay"])
              ELSE history,
              todo \ {c})

\* LeadScoringEngine.apply_score_decay.  `too_early` is the answer of
\* the check on config.last_decay_applied: it is set and fewer than
\* decay_frequency_days lie between it and timezone.now().
ApplyScoreDecay(too_early) ==
    /\ calc.pc = "idle"
    /\ Len(score_history) + Cardinality(Customers) <= MaxHistory
    /\ IF ~config.enable_score_decay \/ too_early
       THEN UNCHANGED <<customer_scores, score_history>>
       ELSE /\ customer_scores' = [c \in Customers |->
                                        DecayRow(customer_scores[c])]
            /\ score_history' = DecayHistory(score_history, Customers)
    /\ UNCHANGED <<rules, customer_data, config, calc, wfvars, cuvars, emvars>>

NextScoring ==
    \/ \E n \in RuleNames : RuleCreate(n)
    \/ \E n \in RuleNames : RuleToggle(n)
    \/ \E c \in Customers, city \in Cities : CustomerUpdate(c, city)
    \/ \E c \in Customers : EmailProgress(c)
    \/ \E cfg \in ConfigChoices : ConfigUpdate(cfg)
    \/ \E c \in Customers, force \in BOOLEAN, recently \in BOOLEAN :
            CalculateBegin(c, force, recently)
    \/ CalculateRule
    \/ CalculateFinish
    \/ \E too_early \in BOOLEAN : ApplyScoreDecay(too_early)

----------------------------------------------------------------------------
(* Strings: a Python str is the sequence of its characters *)

UpperLetters ==
    <<"A", "B", "C", "D", "E", "F", "G", "H", "I", "J", "K", "L", "M",
      "N", "O", "P", "Q", "R", "S", "T", "U", "V", "W", "X", "Y", "Z">>

LowerLetters ==
    <<"a", "b", "c", "d", "e", "f", "g", "h", "i", "j", "k", "l", "m",
      "n", "o", "p", "q", "r", "s", "t", "u", "v", "w", "x", "y", "z">>

Digits == {"0", "1", "2", "3", "4", "5", "6", "7", "8", "9"}

IndexIn(letters, ch) ==
    IF \E i \in DOMAIN letters : letters[i] = ch
    THEN CHOOSE i \in DOMAIN letters : letters[i] = ch
    ELSE 0

\* str.lower()
LowerChar(ch) ==
    IF IndexIn(UpperLetters, ch) # 0
    THEN LowerLetters[IndexIn(UpperLetters, ch)] ELSE ch

RECURSIVE Lower(_)
Lower(s) ==
    IF s = <<>> THEN <<>> ELSE <<LowerChar(Head(s))>> \o Lower(Tail(s))

\* str.strip()
IsSpace(ch) == ch = " "

RECURSIVE LStrip(_)
LStrip(s) == IF s # <<>> /\ IsSpace(Head(s)) THEN LStrip(Tail(s)) ELSE s

RECURSIVE RStrip(_)
RStrip(s) ==
    IF s # <<>> /\ IsSpace(s[Len(s)])
    THEN RStrip(SubSeq(s, 1, Len(s) - 1)) ELSE s

Strip(s) == RStrip(LStrip(s))

\* str.startswith(prefix)
StartsWith(s, prefix) ==
    /\ Len(s) >= Len(prefix)
    /\ SubSeq(s, 1, Len(prefix)) = prefix

\* re.sub(r'\D', '', phone)
IsDigit(ch) == ch \in Digits

DigitsOnly(s) == SelectSeq(s, IsDigit)

\* the order of two characters in the database's binary collation: the
\* space, then the upper-case and then the lower-case letters
CharRank(ch) ==
    IF IndexIn(UpperLetters, ch) # 0 THEN IndexIn(UpperLetters, ch)
    ELSE IF IndexIn(LowerLetters, ch) # 0
    THEN Len(UpperLetters) + IndexIn(LowerLetters, ch)
    ELSE 0

\* s sorts before t, or with it
RECURSIVE StrLeq(_, _)
StrLeq(s, t) ==
    IF s = <<>> THEN TRUE
    ELSE IF t = <<>> THEN FALSE
    ELSE IF CharRank(Head(s)) # CharRank(Head(t))
    THEN CharRank(Head(s)) < CharRank(Head(t))
    ELSE StrLeq(Tail(s), Tail(t))

----------------------------------------------------------------------------
(* Customer rows and requests *)

Users == {"anonymous", "staff", "admin"}

IsAuthenticated(user) == user # "anonymous"

IsSuperuser(user) == user = "admin"

\* the seven subscriber digits the mobile numbers of the model end in
Subscriber == <<"1", "2", "3", "4", "5", "6", "7">>

LocalMobile(d1, d2) == <<"0", d1, d2>> \o Subscriber

PlusMobile(d1, d2) == <<"+", "6", "4", d1, d2>> \o Subscriber

IntlMobile(d1, d2) == <<"6", "4", d1, d2>> \o Subscriber

EmailOf(name) == <<name, "@", "x", ".", "n", "z">>

\* the customers entered with CustomerForm
FormCustomers ==
    {[first_name |-> <<"A", "n", "n">>, last_name |-> <<"F", "o", "x">>,
      email |-> EmailOf("a"), mobile |-> LocalMobile("2", "9"),
      is_active |-> TRUE],
     [first_name |-> <<"B", "o", "b">>, last_name |-> <<"L", "e", "e">>,
      email |-> EmailOf("A"), mobile |-> LocalMobile("2", "1"),
      is_active |-> TRUE],
     [first_name |-> <<"C", "a", "t">>, last_name |-> <<"M", "o", "s", "s">>,
      email |-> EmailOf("z"), mobile |-> PlusMobile("2", "1"),
      is_active |-> TRUE]}

\* the data rows a CSV file is made of: columns First Name, Last Name,
\* Email and Mobile
CsvRows ==
    {[first_name |-> <<"D", "a", "n">>, last_name |-> <<"R", "a", "y">>,
      email |-> EmailOf("N"), mobile |-> LocalMobile("2", "2")],
     [first_name |-> <<>>, last_name |-> <<"R", "a", "y">>,
      email |-> EmailOf("n"), mobile |-> LocalMobile("2", "2")],
     [first_name |-> <<"D", "a", "n">>, last_name |-> <<"R", "a", "y">>,
      email |-> <<" ">>, mobile |-> LocalMobile("2", "2")],
     [first_name |-> <<" ">>, last_name |-> <<>>,
      email |-> EmailOf("a"), mobile |-> <<>>],
     [first_name |-> <<"A", "n", "n">>, last_name |-> <<"F", "o", "x">>,
      email |-> <<" ">> \o EmailOf("A"), mobile |-> LocalMobile("2", "7")],
     [first_name |-> <<"D", "a", "n">>, last_name |-> <<"R", "a", "y">>,
      email |-> EmailOf("n"), mobile |-> <<>>]}

RECURSIVE SeqsUpTo(_, _)
SeqsUpTo(S, n) ==
    IF n = 0 THEN {<<>>}
    ELSE SeqsUpTo(S, n - 1) \cup
         {Append(q, x) : q \in {p \in SeqsUpTo(S, n - 1) : Len(p) = n - 1},
                         x \in S}

\* the uploaded files: whether the header row names every required column,
\* and the data rows
CsvFiles ==
    {[headers_ok |-> TRUE, rows |-> q] : q \in SeqsUpTo(CsvRows, MaxRows)}
    \cup {[headers_ok |-> FALSE, rows |-> <<>>]}

\* the mobile numbers typed into the form field that validate_mobile checks
MobileInputs ==
    {LocalMobile(d1, d2) : d1 \in {"2", "3"}, d2 \in {"1", "9"}}
    \cup {PlusMobile(d1, d2) : d1 \in {"2", "3"}, d2 \in {"1", "9"}}
    \cup {IntlMobile(d1, d2) : d1 \in {"2", "3"}, d2 \in {"1", "9"}}
    \cup {<<>>, LocalMobile("1", "1")}

NoResponse ==
    [endpoint |-> "", user |-> "", status |-> 0, request |-> <<>>,
     body |-> <<>>]

\* the redirect of login_required / user_passes_test, and of a view that
\* redirects after its work
Redirect(endpoint, user, request) ==
    [endpoint |-> endpoint, user |-> user, status |-> 302,
     request |-> request, body |-> <<>>]

Ok(endpoint, user, request, body) ==
    [endpoint |-> endpoint, user |-> user, status |-> 200,
     request |-> request, body |-> body]

\* the decorators of the views
LoginRequired(user) == IsAuthenticated(user)

SuperuserRequired(user) == IsAuthenticated(user) /\ IsSuperuser(user)

Emails(db) == {db[i].email : i \in DOMAIN db}

----------------------------------------------------------------------------
(* customers.utils *)

\* normalize_phone
NormalizePhone(phone) ==
    IF phone = <<>> THEN <<>>
    ELSE LET digits_only == DigitsOnly(phone)
         IN IF \/ StartsWith(digits_only, <<"6", "4", "2", "1">>)
               \/ StartsWith(digits_only, <<"6", "4", "2", "2">>)
               \/ StartsWith(digits_only, <<"6", "4", "2", "7">>)
            THEN <<"0">> \o SubSeq(digits_only, 3, Len(digits_only))
            ELSE digits_only

\* find_potential_duplicates(customer=db[i]): the candidates of the email
\* and mobile query with their confidence score.  Name similarity only adds
\* to the score of such a candidate, and a match by name alone scores at
\* most 10; the limit of ten results is not reached by MaxCustomers rows.
FindPotentialDuplicates(db, i) ==
    LET norm_mobile == NormalizePhone(db[i].mobile)
        EmailMatch(j) == Lower(db[j].email) = Lower(db[i].email)
        MobileMatch(j) ==
            norm_mobile # <<>> /\ NormalizePhone(db[j].mobile) = norm_mobile
        candidates == {j \in DOMAIN db \ {i} : EmailMatch(j) \/ MobileMatch(j)}
    IN {[customer |-> j,
         confidence_score |-> (IF EmailMatch(j) THEN 50 ELSE 0)
                              + (IF MobileMatch(j) THEN 40 ELSE 0)] :
            j \in candidates}

\* Customer.Meta.ordering = ['last_name', 'first_name']: the orders in which
\* Customer.objects.all() can return the rows (rows with equal names in
\* either order)
CustomerOrders(db) ==
    {q \in SeqsOf(DOMAIN db) :
        \A a, b \in 1..Len(q) : a < b =>
            LET c == db[q[a]]
                d == db[q[b]]
            IN IF c.last_name # d.last_name
               THEN StrLeq(c.last_name, d.last_name)
               ELSE StrLeq(c.first_name, d.first_name)}

\* get_duplicate_summary: the loop over all_customers, from the customers
\* `todo` on, with the groups and processed_ids built so far
RECURSIVE DuplicateGroups(_, _, _, _)
DuplicateGroups(db, todo, duplicate_groups, processed_ids) ==
    IF todo = <<>> THEN duplicate_groups
    ELSE LET i == Head(todo)
             high_confidence_duplicates ==
                {d \in FindPotentialDuplicates(db, i) :
                    d.confidence_score >= 30}
             group_ids == {i} \cup
                {d.customer : d \in high_confidence_duplicates}
         IN IF i \in processed_ids
               \/ high_confidence_duplicates = {}
               \/ group_ids \cap processed_ids # {}
            THEN DuplicateGroups(db, Tail(todo), duplicate_groups,
                                 processed_ids)
            ELSE DuplicateGroups(db, Tail(todo),
                    Append(duplicate_groups,
                        [primary_customer |-> i,
                         duplicates |-> high_confidence_duplicates,
                         group_size |->
                            Cardinality(high_confidence_duplicates) + 1]),
                    processed_ids \cup group_ids)

GetDuplicateSummary(db, order) == DuplicateGroups(db, order, <<>>, {})

----------------------------------------------------------------------------
(* customers.views *)

InitCustomers ==
    /\ customers = <<>>
    /\ response = NoResponse

\* customer_create: CustomerForm is posted; the form is valid unless the
\* email is taken (the unique check of the ModelForm)
CustomerCreate(user, person) ==
    /\ Len(customers) < MaxCustomers
    /\ IF ~LoginRequired(user)
       THEN /\ response' = Redirect("customer_create", user, person)
            /\ UNCHANGED customers
       ELSE IF person.email \in Emails(customers)
       THEN /\ response' = Ok("customer_create", user, person, <<>>)
            /\ UNCHANGED customers
       ELSE /\ customers' = Append(customers, person)
            /\ response' = Redirect("customer_create", user, person)
    /\ UNCHANGED <<wfvars, scvars, emvars>>

\* duplicate_detection
DuplicateDetection(user) ==
    /\ IF ~SuperuserRequired(user)
       THEN response' = Redirect("duplicate_detection", user, <<>>)
       ELSE \E order \in CustomerOrders(customers) :
                response' = Ok("duplicate_detection", user, <<>>,
                    [duplicate_groups |->
                        GetDuplicateSummary(customers, order)])
    /\ UNCHANGED <<customers, wfvars, scvars, emvars>>

\* export_customers_page
ExportCustomersPage(user) ==
    /\ IF ~SuperuserRequired(user)
       THEN response' = Redirect("export_customers_page", user, <<>>)
       ELSE response' = Ok("export_customers_page", user, <<>>,
                [export_count |->
                    Cardinality({i \in DOMAIN customers :
                                    customers[i].is_active})])
    /\ UNCHANGED <<customers, wfvars, scvars, emvars>>

\* export_customers_csv: the rows of the CSV download
ExportCustomersCsv(user) ==
    /\ IF ~LoginRequired(user)
       THEN response' = Redirect("export_customers_csv", user, <<>>)
       ELSE response' = Ok("export_customers_csv", user, <<>>,
                [rows |-> {customers[i] : i \in
                            {j \in DOMAIN customers : customers[j].is_active}}])
    /\ UNCHANGED <<customers, wfvars, scvars, emvars>>

\* import_customers_page
ImportCustomersPage(user) ==
    /\ IF ~SuperuserRequired(user)
       THEN response' = Redirect("import_customers_page", user, <<>>)
       ELSE response' = Ok("import_customers_page", user, <<>>,
                [sample_headers |->
                    <<"First Name", "Last Name", "Email", "Mobile">>])
    /\ UNCHANGED <<customers, wfvars, scvars, emvars>>

\* the first of First Name, Last Name and Mobile that is empty, as the
\* checks before Customer.objects.create find it ("": none)
MissingFieldBroken(first_name, last_name, mobile) == ""

MissingField(first_name, last_name, mobile) ==
    IF first_name = <<>> THEN "First Name"
    ELSE IF last_name = <<>> THEN "Last Name"
    ELSE IF mobile = <<>> THEN "Mobile"
    ELSE ""

\* update_customer_from_csv_row
UpdateCustomerFromCsvRow(customer, row) ==
    [customer EXCEPT
        !.first_name = IF Strip(row.first_name) # <<>>
                       THEN Strip(row.first_name) ELSE @,
        !.last_name = IF Strip(row.last_name) # <<>>
                      THEN Strip(row.last_name) ELSE @,
        !.mobile = IF Strip(row.mobile) # <<>> THEN Strip(row.mobile) ELSE @]

\* import_customers_csv: the body of the loop for one data row; `s` holds
\* the Customer table, existing_emails and results
ImportRow(s, row, row_num, skip_duplicates) ==
    LET email == Lower(Strip(row.email))
        first_name == Strip(row.first_name)
        last_name == Strip(row.last_name)
        mobile == Strip(row.mobile)
        counted == [s EXCEPT !.results.total_rows = @ + 1]
        Rejected(t, field) ==
            [t EXCEPT !.results.errors =
                        Append(@, [row |-> row_num, field |-> field]),
                      !.results.skipped = @ + 1]
        found == [counted EXCEPT !.results.duplicates_found = @ + 1]
        matches == {i \in DOMAIN s.customers : s.customers[i].email = email}
        checked == IF email \in s.existing_emails THEN found ELSE counted
    IN IF email = <<>> THEN Rejected(counted, "Email")
       ELSE IF email \in s.existing_emails /\ skip_duplicates
       THEN [found EXCEPT !.results.skipped = @ + 1]
       ELSE IF email \in s.existing_emails /\ matches # {}
       THEN LET i == CHOOSE j \in matches : TRUE
            IN [found EXCEPT
                    !.customers[i] = UpdateCustomerFromCsvRow(@, row),
                    !.results.updated = @ + 1]
       ELSE IF MissingField(first_name, last_name, mobile) # ""
       THEN Rejected(checked, MissingField(first_name, last_name, mobile))
       ELSE [checked EXCEPT
                !.customers = Append(@,
                    [first_name |-> first_name, last_name |-> last_name,
                     email |-> email, mobile |-> mobile, is_active |-> TRUE]),
                !.existing_emails = @ \cup {email},
                !.results.created = @ + 1]

\* the loop `for row_num, row in enumerate(csv_reader, start=2)`, from
\* row_num on
RECURSIVE ImportRows(_, _, _, _)
ImportRows(s, rows, row_num, skip_duplicates) ==
    IF rows = <<>> THEN s
    ELSE ImportRows(ImportRow(s, Head(rows), row_num, skip_duplicates),
                    Tail(rows), row_num + 1, skip_duplicates)

\* import_customers_csv, a POST with a .csv file
ImportCustomersCsv(user, csv_file, skip_duplicates) ==
    /\ Len(customers) + Len(csv_file.rows) <= MaxCustomers
    /\ LET request == [csv_file |-> csv_file,
                       skip_duplicates |-> skip_duplicates]
           start == [customers |-> customers,
                     existing_emails |-> Emails(customers),
                     results |-> [total_rows |-> 0, created |-> 0,
                                  updated |-> 0, skipped |-> 0,
                                  errors |-> <<>>, duplicates_found |-> 0]]
           end == ImportRows(start, csv_file.rows, 2, skip_duplicates)
       IN IF ~SuperuserRequired(user)
          THEN /\ response' = Redirect("import_customers_csv", user, request)
               /\ UNCHANGED customers
          ELSE IF ~csv_file.headers_ok
          THEN /\ response' = Ok("import_customers_csv", user, request,
                                 [success |-> FALSE])
               /\ UNCHANGED customers
          ELSE /\ customers' = end.customers
               /\ response' = Ok("import_customers_csv", user, request,
                                 [success |-> TRUE, results |-> end.results])
    /\ UNCHANGED <<wfvars, scvars, emvars>>

\* re.match(r'^\+?64[2-9]\d{7,8}$|^0[2-9]\d{7,8}$', mobile)
MatchesNzMobile(mobile) ==
    LET unsigned == IF StartsWith(mobile, <<"+">>) THEN Tail(mobile)
                    ELSE mobile
        Tailed(s) ==
            /\ Len(s) \in {8, 9}
            /\ s[1] \in Digits \ {"0", "1"}
            /\ \A i \in 2..Len(s) : s[i] \in Digits
    IN \/ /\ StartsWith(unsigned, <<"6", "4">>)
          /\ Tailed(SubSeq(unsigned, 3, Len(unsigned)))
       \/ /\ StartsWith(mobile, <<"0">>)
          /\ Tailed(Tail(mobile))

\* validate_mobile, called for a new customer (no customer_id)
ValidateMobile(user, input) ==
    /\ LET mobile == Strip(input)
           normalized_mobile == NormalizePhone(mobile)
           similar == {i \in DOMAIN customers :
                        NormalizePhone(customers[i].mobile) = normalized_mobile}
       IN IF ~LoginRequired(user)
          THEN response' = Redirect("validate_mobile", user, input)
          ELSE IF mobile = <<>> \/ ~MatchesNzMobile(mobile)
          THEN response' = Ok("validate_mobile", user, input,
                              [valid |-> FALSE, duplicate_customer |-> {}])
          ELSE IF similar # {}
          THEN \E i \in similar :
                    response' = Ok("validate_mobile", user, input,
                        [valid |-> FALSE, duplicate_customer |-> {i}])
          ELSE response' = Ok("validate_mobile", user, input,
                              [valid |-> TRUE, duplicate_customer |-> {}])
    /\ UNCHANGED <<customers, wfvars, scvars, emvars>>

NextCustomers ==
    \/ \E user \in Users, person \in FormCustomers :
            CustomerCreate(user, person)
    \/ \E user \in Users : DuplicateDetection(user)
    \/ \E user \in Users : ExportCustomersPage(user)
    \/ \E user \in Users : ExportCustomersCsv(user)
    \/ \E user \in Users : ImportCustomersPage(user)
    \/ \E user \in Users, csv_file \in CsvFiles, skip \in BOOLEAN :
            ImportCustomersCsv(user, csv_file, skip)
    \/ \E user \in Users, input \in MobileInputs : ValidateMobile(user, input)

----------------------------------------------------------------------------
(* Email sequences (analytics/email_automation.py) *)

\* the steps the sequence builder saves for the sequence: step_number and
\* the delay of the step
StepChoices ==
    {<<[step_number |-> 1, delay_days |-> 0, delay_hours |-> 0]>>,
     <<[step_number |-> 1, delay_days |-> 0, delay_hours |-> 0],
       [step_number |-> 2, delay_days |-> 0, delay_hours |-> 2]>>,
     <<[step_number |-> 1, delay_days |-> 0, delay_hours |-> 0],
       [step_number |-> 2, delay_days |-> 0, delay_hours |-> 1],
       [step_number |-> 3, delay_days |-> 1, delay_hours |-> 0]>>}

\* timedelta(days=delay_days, hours=delay_hours), in hours
StepDelay(step) == 24 * step.delay_days + step.delay_hours

InitEmail ==
    /\ clock = 0
    /\ sequence_steps = <<>>
    /\ email_deliveries = <<>>
    /\ sequence_events = <<>>

\* an hour passes
Tick ==
    /\ clock < MaxClock
    /\ clock' = clock + 1
    /\ UNCHANGED <<sequence_steps, email_deliveries, sequence_events,
                   wfvars, scvars, cuvars>>

\* views: the sequence is saved; its old steps are deleted, and with them
\* (on_delete=CASCADE) the EmailDelivery rows that point to them
SequenceSave(steps) ==
    /\ sequence_steps # steps
    /\ sequence_steps' = steps
    /\ email_deliveries' = <<>>
    /\ UNCHANGED <<clock, sequence_events, wfvars, scvars, cuvars>>

\* the EmailDelivery row send_template_email leaves: 'sent', or 'failed'
\* when the mail transport raises
SentRow(c, step_number, mail_ok) ==
    [customer |-> c, step_number |-> step_number,
     status |-> IF mail_ok THEN "sent" ELSE "failed", sent_at |-> clock]

\* schedule_sequence_step: send_time is computed and logged, the row is
\* created with status 'scheduled' and without the send time
ScheduleSequenceStep(c, step, base_time) ==
    LET send_time == base_time + StepDelay(step)
    IN [customer |-> c, step_number |-> step.step_number,
        status |-> "scheduled", sent_at |-> clock]

\* trigger_sequence for the active sequence
TriggerSequence(c, mail_ok) ==
    /\ sequence_steps # <<>>
    /\ Len(sequence_events) < MaxTriggers
    /\ Len(email_deliveries) + Len(sequence_steps) <= MaxDeliveries
    /\ LET first_step == Head(sequence_steps)
           first_row == SentRow(c, first_step.step_number, mail_ok)
           scheduled == [i \in 1..(Len(sequence_steps) - 1) |->
                            ScheduleSequenceStep(c, sequence_steps[i + 1],
                                                 clock)]
       IN IF ~mail_ok
          THEN /\ email_deliveries' = Append(email_deliveries, first_row)
               /\ UNCHANGED sequence_events
          ELSE /\ email_deliveries' =
                    Append(email_deliveries, first_row) \o scheduled
               /\ sequence_events' = Append(sequence_events,
                    [event_type |-> "email_sequence_triggered",
                     customer |-> c, timestamp |-> clock])
    /\ UNCHANGED <<clock, sequence_steps, wfvars, scvars, cuvars>>

ScheduledIds == {i \in DOMAIN email_deliveries :
                    email_deliveries[i].status = "scheduled"}

\* process_scheduled_emails: every row with status 'scheduled' is sent
\* now; a sent row is replaced by the row of send_template_email, a row
\* whose mail raises (the rows `failing`) is marked 'failed' beside the
\* failed row of send_template_email
RECURSIVE ProcessedRows(_, _, _, _)
ProcessedRows(rows, i, failing, result) ==
    IF i > Len(rows) THEN result.kept \o result.created
    ELSE LET delivery == rows[i]
         IN IF delivery.status # "scheduled"
            THEN ProcessedRows(rows, i + 1, failing,
                    [result EXCEPT !.kept = Append(@, delivery)])
            ELSE IF i \in failing
            THEN ProcessedRows(rows, i + 1, failing,
                    [kept |-> Append(result.kept,
                                [delivery EXCEPT !.status = "failed"]),
                     created |-> Append(result.created,
                                SentRow(delivery.customer,
                                        delivery.step_number, FALSE))])
            ELSE ProcessedRows(rows, i + 1, failing,
                    [result EXCEPT !.created = Append(@,
                                SentRow(delivery.customer,
                                        delivery.step_number, TRUE))])

\* the management command process_scheduled_emails (not a dry run)
ProcessScheduledEmails(failing) ==
    /\ Len(email_deliveries) + Cardinality(failing) <= MaxDeliveries
    /\ email_deliveries' = ProcessedRows(email_deliveries, 1, failing,
                                         [kept |-> <<>>, created |-> <<>>])
    /\ UNCHANGED <<clock, sequence_steps, sequence_events,
                   wfvars, scvars, cuvars>>

NextEmail ==
    \/ Tick
    \/ \E steps \in StepChoices : SequenceSave(steps)
    \/ \E c \in Customers, mail_ok \in BOOLEAN : TriggerSequence(c, mail_ok)
    \/ \E failing \in SUBSET ScheduledIds : ProcessScheduledEmails(failing)

----------------------------------------------------------------------------
(* Specifications *)

Init == InitWorkflow /\ InitScoring /\ InitCustomers /\ InitEmail

SpecWorkflow == Init /\ [][NextWorkflow]_vars

SpecScoring == Init /\ [][NextScoring]_vars

SpecTrigger == Init /\ [][NextTrigger]_vars

SpecCustomers == Init /\ [][NextCustomers]_vars

SpecEmail == Init /\ [][NextEmail]_vars

----------------------------------------------------------------------------
(* Properties of the workflow engine (checked under SpecWorkflow) *)

ExecutionIds == DOMAIN executions

RowsOf(e) == {i \in DOMAIN action_executions :
                action_executions[i].workflow_execution = e}

\* C1: when an action of an execution fails the execution is 'failed' from
\* that step on and stays 'failed'; no further ActionExecution row (no
\* action of a higher action_order, no retry of the failed one) is ever
\* created for that execution.
C1_FailureHalts ==
    /\ [](\A i \in DOMAIN action_executions :
            action_executions[i].status = "failed" =>
              /\ executions[action_executions[i].workflow_execution].status
                    = "failed"
              /\ \A j \in RowsOf(action_executions[i].workflow_execution) :
                    j <= i)
    /\ [][\A e \in ExecutionIds :
            executions[e].status = "failed" =>
                executions'[e].status = "failed"]_vars

\* a failed execution whose workflow holds an action after the failed one,
\* seen after the engine call returned
C1_Witness ==
    /\ pc = "idle"
    /\ \E e \in ExecutionIds :
        /\ executions[e].status = "failed"
        /\ \E i \in RowsOf(e) : action_executions[i].status = "failed"
        /\ \E a \in ActionsOf(executions[e].workflow) :
                a.action_order > executions[e].current_action

\* C2: within one execution the ActionExecution rows are created in
\* strictly ascending action_order (so each action at most once), and when
\* a row is created every earlier row of that execution is 'completed'.
C2_AscendingOnce ==
    \A e \in ExecutionIds : \A i, j \in RowsOf(e) :
        i < j =>
            /\ action_executions[i].action < action_executions[j].action
            /\ action_executions[i].status = "completed"

C2_Witness ==
    \E e \in ExecutionIds : \E i, j \in RowsOf(e) :
        /\ i < j
        /\ action_executions[j].status = "running"

\* C3: when start_workflow_execution has returned, every execution is
\* 'completed' or 'failed', also when its actions carry a delay.
C3_TerminalOnReturn ==
    pc = "idle" =>
        \A e \in ExecutionIds : executions[e].status \in {"completed", "failed"}

\* an execution that ran a delayed action and has returned
C3_Witness ==
    /\ pc = "idle"
    /\ \E e \in ExecutionIds : \E i \in RowsOf(e) :
        /\ action_executions[i].status = "completed"
        /\ ActionRow(executions[e].workflow,
                     action_executions[i].action).delay_minutes # 0

\* C9: the execution_log is append-only: across every step the old log of
\* an execution is a prefix of its new log.
C9_LogAppendOnly ==
    [][\A e \in ExecutionIds :
        IsPrefix(executions[e].execution_log,
                 executions'[e].execution_log)]_vars

\* a log holding the start entry, an action entry and the final entry
C9_Witness ==
    \E e \in ExecutionIds :
        /\ Len(executions[e].execution_log) >= 3
        /\ executions[e].status = "completed"

\* C10: current_action never decreases; it is beyond an action's
\* action_order only if that action has a 'completed' ActionExecution row in
\* the execution; in a failed execution it equals the failed action's order.
C10_CursorMonotone ==
    /\ [][\A e \in ExecutionIds :
            executions'[e].current_action >= executions[e].current_action]_vars
    /\ [](\A e \in ExecutionIds :
            /\ \A i \in RowsOf(e) :
                executions[e].current_action > action_executions[i].action =>
                    action_executions[i].status = "completed"
            /\ \A n \in 1..(executions[e].current_action - 1) :
                n \in {a.action_order :
                        a \in ActionsOf(executions[e].workflow)} =>
                    \E i \in RowsOf(e) :
                        /\ action_executions[i].action = n
                        /\ action_executions[i].status = "completed"
            /\ executions[e].status = "failed" =>
                \E i \in RowsOf(e) :
                    /\ action_executions[i].status = "failed"
                    /\ action_executions[i].action
                            = executions[e].current_action)

\* the cursor was moved past two actions and then stopped at a failed one
C10_Witness ==
    \E e \in ExecutionIds :
        /\ executions[e].status = "failed"
        /\ executions[e].current_action = 3

\* the ActionExecution rows of execution e that are 'completed', as the
\* action_order values they ran
CompletedOrders(e) ==
    {action_executions[i].action :
        i \in {j \in RowsOf(e) : action_executions[j].status = "completed"}}

\* C18 as stated: an execution is 'completed' only if every WorkflowAction
\* of its workflow has a 'completed' ActionExecution row in it.
C18_CompletedRanAll ==
    \A e \in ExecutionIds :
        executions[e].status = "completed" =>
            \A a \in ActionsOf(executions[e].workflow) :
                a.action_order \in CompletedOrders(e)

\* C18 amended: in the step in which an execution becomes 'completed', every
\* WorkflowAction its workflow has at that moment has a 'completed'
\* ActionExecution row in it, and a completed execution gets no further
\* rows afterwards.
C18_CompletedRanAllThen ==
    [][\A e \in DOMAIN executions' :
        executions'[e].status = "completed" =>
            IF e \in ExecutionIds /\ executions[e].status = "completed"
            THEN RowsOf(e)' = RowsOf(e)
            ELSE \A a \in workflow_actions' :
                    a.workflow = executions'[e].workflow =>
                        a.action_order \in CompletedOrders(e)']_vars

\* an execution completed after running the three actions of its workflow
C18_Witness ==
    \E e \in ExecutionIds :
        /\ executions[e].status = "completed"
        /\ Cardinality(ActionsOf(executions[e].workflow)) = 3
        /\ CompletedOrders(e) = {1, 2, 3}

\* the action type of the WorkflowAction an ActionExecution row ran
TypeOfRow(i) ==
    ActionRow(executions[action_executions[i].workflow_execution].workflow,
              action_executions[i].action).action_type

\* C19 as stated: an ActionExecution fails for want of an executor
\* ('Unknown action type') only if its action type is outside
\* WorkflowAction.ACTION_TYPES.
C19_EveryTypeHandled ==
    \A i \in DOMAIN action_executions :
        (action_executions[i].status = "failed"
            /\ TypeOfRow(i) \notin HandledTypes)
        => TypeOfRow(i) \notin ACTION_TYPES

----------------------------------------------------------------------------
(* Properties of the lead scoring engine (checked under SpecScoring) *)

\* a step in which calculate_customer_score stores its result
CalculationStored == calc.pc = "rules" /\ calc'.pc = "idle"

\* a step in which the loop of calculate_customer_score handles one rule
RuleEvaluated == calc.pc = "rules" /\ calc'.pc = "rules"

\* the running total after the rules of `done`, in that order
RECURSIVE TotalOf(_, _)
TotalOf(done, data) ==
    IF done = <<>> THEN 0
    ELSE LET n == done[Len(done)]
         IN ApplyRuleScore(TotalOf(SubSeq(done, 1, Len(done) - 1), data),
                           EvaluateRule(data, RuleCatalogue[n]),
                           RuleCatalogue[n].is_multiplier)

\* C4 as stated: after a recalculation min_score <= current_score <=
\* max_score.
C4_WithinLimits ==
    [][CalculationStored =>
        /\ config.min_score <= customer_scores'[calc.customer].current_score
        /\ customer_scores'[calc.customer].current_score <= config.max_score]_vars

\* C4 amended: after a recalculation current_score is the rule total where
\* that lies between the limits, else the limit it crosses, min_score taking
\* precedence: current_score >= min_score always, and current_score <=
\* max_score whenever min_score <= max_score.
C4_Clamped ==
    [][CalculationStored =>
        LET s == customer_scores'[calc.customer].current_score
        IN /\ s >= config.min_score
           /\ config.min_score <= config.max_score => s <= config.max_score
           /\ s \in {calc.new_score, config.min_score, config.max_score}
           /\ (config.min_score <= calc.new_score
                    /\ calc.new_score <= config.max_score)
                => s = calc.new_score]_vars

\* the customer's active rules add up to more than max_score and the one
\* recalculation made so far stored max_score
C4_Witness ==
    /\ calc.pc = "idle"
    /\ config.min_score < config.max_score
    /\ \E c \in Customers :
        /\ customer_scores[c].exists
        /\ customer_scores[c].calculation_count = 1
        /\ customer_scores[c].current_score = config.max_score
        /\ \E q \in OrderedRules(ActiveRules) :
                TotalOf(q, customer_data[c]) > config.max_score
        /\ Len(score_history) = 1
        /\ score_history[1].new_score = config.max_score

\* C5: every CustomerScore row carries the tier of its current_score under
\* the thresholds 25 / 50 / 75, whether the score was written by
\* calculate_customer_score or by apply_score_decay.
C5_TierMatchesScore ==
    \A c \in Customers :
        customer_scores[c].exists =>
            LET s == customer_scores[c].current_score
                t == customer_scores[c].score_tier
            IN /\ (t = "cold") <=> (s <= 25)
               /\ (t = "warm") <=> (26 <= s /\ s <= 50)
               /\ (t = "hot") <=> (51 <= s /\ s <= 75)
               /\ (t = "qualified") <=> (s > 75)

\* apply_score_decay took a score from the qualified band into the warm one
C5_Witness ==
    \E i \in DOMAIN score_history :
        /\ score_history[i].change_reason = "decay"
        /\ score_history[i].old_score > 75
        /\ score_history[i].new_score <= 50
        /\ customer_scores[score_history[i].customer].current_score
                = score_history[i].new_score

\* C6: a recalculation appends exactly one ScoreHistory row, holding the
\* stored score and tier from before the call and the new ones, if the
\* score or the tier changed, and leaves the table alone otherwise.
C6_HistoryOnChange ==
    [][CalculationStored =>
        LET before == customer_scores[calc.customer]
            after == customer_scores'[calc.customer]
        IN IF after.current_score # before.current_score
              \/ after.score_tier # before.score_tier
           THEN /\ Len(score_history') = Len(score_history) + 1
                /\ SubSeq(score_history', 1, Len(score_history))
                        = score_history
                /\ LET row == score_history'[Len(score_history')]
                   IN /\ row.customer = calc.customer
                      /\ row.old_score = before.current_score
                      /\ row.new_score = after.current_score
                      /\ row.old_tier = before.score_tier
                      /\ row.new_tier = after.score_tier
           ELSE score_history' = score_history]_vars

\* two recalculations of a customer, one of which wrote a row and the other
\* none
C6_Witness ==
    /\ calc.pc = "idle"
    /\ \E c \in Customers :
        /\ customer_scores[c].exists
        /\ customer_scores[c].calculation_count = 2
        /\ Len(score_history) = 1
        /\ score_history[1].change_reason = "recalculation"
        /\ score_history[1].new_score = customer_scores[c].current_score

\* t * d / 100 truncated toward zero, in exact integer arithmetic
PyScaleExact(t, d) ==
    LET q == (Abs(t) * Abs(d)) \div 100
    IN IF (t < 0) = (d < 0) THEN q ELSE -q

\* C7 as stated: a rule with delta d # 0 takes the total t to t + d, or to
\* t * d / 100 truncated toward zero if it is a multiplier; d = 0 leaves t.
C7_RunningTotal ==
    [][RuleEvaluated =>
        LET rule == RuleCatalogue[Head(calc.rules)]
            d == EvaluateRule(customer_data[calc.customer], rule)
            t == calc.new_score
        IN calc'.new_score =
            IF d = 0 THEN t
            ELSE IF rule.is_multiplier THEN PyScaleExact(t, d)
            ELSE t + d]_vars

\* C8: the rules a calculation evaluates are exactly the rows with
\* is_active set, each once, in order of priority descending, then name
\* ascending; the running total is the result of the rules evaluated so
\* far, applied in that order.
C8_ActiveInOrder ==
    calc.pc = "rules" =>
        LET q == calc.done \o calc.rules
        IN /\ {q[i] : i \in 1..Len(q)} = {n \in DOMAIN rules : rules[n]}
           /\ \A i, j \in 1..Len(q) : i < j =>
                /\ q[i] # q[j]
                /\ \/ RuleCatalogue[q[i]].priority > RuleCatalogue[q[j]].priority
                   \/ /\ RuleCatalogue[q[i]].priority
                            = RuleCatalogue[q[j]].priority
                      /\ NameRank[q[i]] < NameRank[q[j]]
           /\ calc.new_score = TotalOf(calc.done, customer_data[calc.customer])

\* an inactive rule is skipped, and the multiplier delta (priority 1) has
\* scaled the 100 points of alpha (priority 2) before bravo is reached
C8_Witness ==
    /\ calc.pc = "rules"
    /\ calc.done = <<"alpha", "delta">>
    /\ calc.new_score < 100
    /\ \E n \in DOMAIN rules : ~rules[n]

\* C11 as stated: the points a rule adds in a calculation (its entry in the
\* score breakdown) never exceed the rule's max_score_contribution when that
\* field is set.
C11_ContributionCapped ==
    \A i \in DOMAIN calc.score_breakdown :
        LET entry == calc.score_breakdown[i]
        IN \A cap \in RuleCatalogue[entry.name].max_score_contribution :
                entry.score_contribution <= cap

----------------------------------------------------------------------------
(* Properties of the workflow triggers (checked under SpecTrigger) *)

\* C17 as stated: trigger_workflows starts a workflow for a customer only
\* while the customer has fewer than max_executions executions of it with
\* status 'completed' or 'running' (max_executions being set), so that
\* triggers alone never take that number above max_executions.
C17_TriggerWithinLimit ==
    [][\A t \in TriggerTypes, c \in Customers :
        (TriggerWorkflows(t, c) /\ Len(executions') = Len(executions) + 1) =>
            LET w == executions'[Len(executions')].workflow
            IN workflow_templates[w].max_executions # 0 =>
                ExecutionCount(w, c) < workflow_templates[w].max_executions]_vars

----------------------------------------------------------------------------
(* Properties of the customer views (checked under SpecCustomers) *)

\* the endpoints of duplicate detection, CSV export and CSV import
SuperuserEndpoints ==
    {"duplicate_detection", "export_customers_page", "export_customers_csv",
     "import_customers_page", "import_customers_csv"}

\* C12 as stated: a request of an anonymous user or of a logged-in
\* non-superuser to an endpoint of duplicate detection, CSV export or CSV
\* import is redirected, carries no customer data and changes no row.
C12_SuperuserOnly ==
    [][(response'.endpoint \in SuperuserEndpoints
            /\ ~IsSuperuser(response'.user))
        => /\ response'.status = 302
           /\ response'.body = <<>>
           /\ customers' = customers]_vars

\* the email of a CSV row as the import compares it
RowEmail(row) == Lower(Strip(row.email))

\* one of First Name, Last Name, Email, Mobile of the row is empty
RowHasEmpty(row) ==
    \/ Strip(row.first_name) = <<>>
    \/ Strip(row.last_name) = <<>>
    \/ Strip(row.email) = <<>>
    \/ Strip(row.mobile) = <<>>

\* the Excel row numbers the entries of an errors list name
ErrorRows(results) ==
    {results.errors[k].row : k \in DOMAIN results.errors}

\* the email of row i is that of a customer of db, or of a customer that an
\* earlier row of the file created
KnownBefore(db, rows, i) ==
    \/ RowEmail(rows[i]) \in Emails(db)
    \/ \E j \in 1..(i - 1) :
        /\ RowEmail(rows[j]) = RowEmail(rows[i])
        /\ ~RowHasEmpty(rows[j])

\* the rows of the file that create a customer: complete rows whose email
\* is not known
CreatingRows(db, rows) ==
    {i \in DOMAIN rows : ~RowHasEmpty(rows[i]) /\ ~KnownBefore(db, rows, i)}

\* a step in which import_customers_csv processes the rows of a file
ImportDone ==
    /\ response'.endpoint = "import_customers_csv"
    /\ response'.status = 200
    /\ response'.body.success

DuplicateRows(db, rows) ==
    {i \in DOMAIN rows :
        /\ RowEmail(rows[i]) # <<>>
        /\ \/ \E k \in DOMAIN db : Lower(db[k].email) = RowEmail(rows[i])
           \/ \E j \in 1..(i - 1) :
                /\ RowEmail(rows[j]) = RowEmail(rows[i])
                /\ ~RowHasEmpty(rows[j])}

\* C14 as stated: after an import that passed header validation
\* total_rows = created + updated + skipped counts the data rows, and
\* duplicates_found is the number of rows whose email already existed in
\* the database or earlier in the file.
C14_CountersAddUp ==
    [][ImportDone =>
        LET rows == response'.request.csv_file.rows
            results == response'.body.results
        IN /\ results.total_rows = Len(rows)
           /\ results.total_rows
                = results.created + results.updated + results.skipped
           /\ results.duplicates_found
                = Cardinality(DuplicateRows(customers, rows))]_vars

\* the digits of a New Zealand number after its 64 or 0 prefix
NationalNumber(mobile) ==
    LET digits_only == DigitsOnly(mobile)
    IN IF StartsWith(digits_only, <<"6", "4">>)
       THEN SubSeq(digits_only, 3, Len(digits_only))
       ELSE IF StartsWith(digits_only, <<"0">>) THEN Tail(digits_only)
       ELSE digits_only

\* C15 as stated: for a number validate_mobile accepts, normalize_phone
\* gives the international and the local form the same digits, and
\* validate_mobile reports the number as existing when a customer has it in
\* either form.
C15_FormsNormaliseAlike ==
    (/\ response.endpoint = "validate_mobile"
     /\ response.status = 200
     /\ MatchesNzMobile(Strip(response.request)))
    => LET mobile == Strip(response.request)
       IN /\ NormalizePhone(mobile)
                = NormalizePhone(<<"0">> \o NationalNumber(mobile))
          /\ (\E i \in DOMAIN customers :
                NationalNumber(customers[i].mobile) = NationalNumber(mobile))
             => ~response.body.valid

\* the customers a duplicate group holds
GroupMembers(group) ==
    {group.primary_customer} \cup {d.customer : d \in group.duplicates}

\* C16 as stated: any two customers whose mobile numbers normalise to the
\* same value are together in one group of get_duplicate_summary.
C16_SameMobileGrouped ==
    (response.endpoint = "duplicate_detection" /\ response.status = 200)
    => \A i, j \in DOMAIN customers :
        (i < j /\ NormalizePhone(customers[i].mobile)
                    = NormalizePhone(customers[j].mobile))
        => \E k \in DOMAIN response.body.duplicate_groups :
            {i, j} \subseteq GroupMembers(response.body.duplicate_groups[k])

----------------------------------------------------------------------------
(* Properties of the email sequences (checked under SpecEmail) *)

\* C20 as stated: a step after the first is sent only when its delay,
\* counted from a moment at which the sequence was triggered for the
\* customer, has elapsed.
C20_SentAfterDelay ==
    \A i \in DOMAIN email_deliveries :
        LET delivery == email_deliveries[i]
        IN (delivery.status = "sent" /\ delivery.step_number > 1)
           => \E k \in DOMAIN sequence_events :
                /\ sequence_events[k].customer = delivery.customer
                /\ sequence_events[k].timestamp
                    + StepDelay(sequence_steps[delivery.step_number])
                   <= delivery.sent_at

====
